---- MODULE Spec2Model ----
(***************************************************************************)
(* Model of the chat backend's message store (backend-golang/chatserver).  *)
(*                                                                         *)
(* The three MySQL tables of db/sql/init.sql are sets of rows; every       *)
(* database/sql call of ChatSQLClient is one atomic step, and a request    *)
(* (one goroutine of net/http) is a process that runs its calls one after  *)
(* the other, interleaved with the calls of the other requests.            *)
(***************************************************************************)
EXTENDS Integers, Sequences, FiniteSets, TLC

\* ---------------------------------------------------------------- bounds
NumProcs == 2      \* concurrent requests
MaxUsers == 2      \* rows of the users table
MaxMsgs  == 2      \* rows of the messages table
MaxMeta  == 2      \* rows of the messages_metadata table

Procs == 1 .. NumProcs

\* ------------------------------------------------------------- constants
MESSAGE_TYPE_PLAINTEXT  == "plaintext"
MESSAGE_TYPE_IMAGE_LINK == "image_link"
MESSAGE_TYPE_VIDEO_LINK == "video_link"
IMAGE_WIDTH  == 100
IMAGE_HEIGHT == 200
VIDEO_LENGTH == 300
VIDEO_SOURCE == "YouTube"

\* SQL NULL of an integer column and of a string column.
NullInt == -1
NullStr == "<NULL>"

\* A Go nil pointer is the empty sequence, a non-nil pointer a one-element one.
Nil == << >>
Ptr(x) == << x >>

\* error values (the empty string is the nil error)
NoErr       == ""
ErrNoRows   == "sql: no rows in result set"
ErrScan     == "sql: Scan error: converting NULL to int is unsupported"
ErrStorage  == "storage failure"
ErrUnknownType == "Unknown message type"

\* ---------------------------------------------------------------- inputs
\* usernames given to CreateUser, and names the requests ask for
CreateNames == {"a", "b"}
LookupNames == {"A", "b"}
MessageTypes == {MESSAGE_TYPE_PLAINTEXT, MESSAGE_TYPE_IMAGE_LINK,
                 MESSAGE_TYPE_VIDEO_LINK, "sticker"}
Contents == {"hi"}

\* ------------------------------------------------------- machine integers
\* Go's int, scaled down from 64 bits: two's complement with wrap-around.
IntBits == 4
MinInt == -(2 ^ (IntBits - 1))
MaxInt == 2 ^ (IntBits - 1) - 1
GoInt == MinInt .. MaxInt
Wrap(x) == ((x - MinInt) % (2 ^ IntBits)) + MinInt
Mul(a, b) == Wrap(a * b)
Add(a, b) == Wrap(a + b)

VARIABLES
  users,        \* table users: rows [id, username]
  messages,     \* table messages
  metadata,     \* table messages_metadata
  nextUserId,   \* AUTO_INCREMENT counters of the three tables
  nextMsgId,
  nextMetaId,
  loc,          \* per request: position and local variables
  hb,           \* history: <<m1, m2>> when message m1 was stored before the AddMessage of m2 began
  pg,           \* a page request on a fetched conversation: arguments and result
  au            \* a password on its way through chatauth: arguments and results

vars == << users, messages, metadata, nextUserId, nextMsgId, nextMetaId,
           loc, hb, pg, au >>

\* sql.NullInt64
NullInt64(valid, n) == [Valid |-> valid, Int64 |-> n]

\* The column comparison of the users table: MySQL's default collation
\* compares VARCHAR values without regard to letter case.
Lower(s) == IF s = "A" THEN "a" ELSE IF s = "B" THEN "b" ELSE s

SetMin(S) == CHOOSE x \in S : \A y \in S : x <= y

\* getUserId with the usernames compared byte by byte
getUserId_Exact(username) ==
  LET ids == {u.id : u \in {v \in users : v.username = username}}
  IN IF ids = {} THEN [id |-> 0, err |-> ErrNoRows]
     ELSE [id |-> SetMin(ids), err |-> NoErr]

\* SELECT id FROM users WHERE username=?  scanned by QueryRow: the first row
\* of the result, which the index on username yields in primary key order.
getUserId(username) ==
  LET ids == {u.id : u \in {v \in users : Lower(v.username) = Lower(username)}}
  IN IF ids = {} THEN [id |-> 0, err |-> ErrNoRows]
     ELSE [id |-> SetMin(ids), err |-> NoErr]

\* SELECT username FROM users WHERE id=?
getUserById(id) ==
  LET rs == {u \in users : u.id = id}
  IN IF rs = {} THEN [username |-> "", err |-> ErrNoRows]
     ELSE [username |-> (CHOOSE u \in rs : TRUE).username, err |-> NoErr]

\* url.Values of a GET /messages request: the values given for each key
NoQuery == [sender |-> << >>, recipient |-> << >>, messagesPerPage |-> << >>, pageToLoad |-> << >>]

\* the decoded JSON body of a POST /messages: no request
NoBody == [ok |-> FALSE, sender |-> "", recipient |-> "", messageType |-> "", content |-> ""]

\* the decoded JSON body of a POST /users (createUserStruct), and the username
\* and password the handler has of it: no request
NoUserBody == [ok |-> FALSE, username |-> "", password |-> << >>]
\* existed: whether an account of the body's username was stored when the
\* request arrived
NoUser == [body |-> NoUserBody, username |-> "", password |-> << >>, existed |-> FALSE]

\* http.ResponseWriter: the status of the first WriteHeader, and the bodies written
NoResponse == [status |-> 0, body |-> << >>]

\* the zero value of the request-local variables
Idle ==
  [pc |-> "idle", op |-> "", senderName |-> "", recipientName |-> "",
   messageType |-> "", content |-> "", senderId |-> 0, recipientId |-> 0,
   metadataId |-> 0, rows |-> << >>, msgs |-> << >>, id |-> 0, err |-> NoErr,
   pre |-> {},
   \* the locals of the /messages handler that made the call, if one did
   h |-> "", q |-> NoQuery, b |-> NoBody, u |-> NoUser, usePagination |-> FALSE, messagesPerPage |-> 0,
   pageToLoad |-> 0, w |-> NoResponse]

\* the zero value of the callee's locals, the handler's locals kept
Clear(l) == [Idle EXCEPT !.h = l.h, !.q = l.q, !.b = l.b, !.u = l.u, !.usePagination = l.usePagination,
                         !.messagesPerPage = l.messagesPerPage, !.pageToLoad = l.pageToLoad,
                         !.w = l.w]

\* no password being hashed or checked
NoAuth == [state |-> "none", password |-> << >>, salt |-> << >>, hash |-> << >>,
           err |-> FALSE, tried |-> << >>, ok |-> FALSE]

\* no page request
NoPage == [state |-> "none", messages |-> << >>, usePagination |-> FALSE,
           messagesPerPage |-> 0, pageToLoad |-> 0,
           status |-> 0, out |-> << >>]

Init ==
  /\ users = {} /\ messages = {} /\ metadata = {}
  /\ nextUserId = 1 /\ nextMsgId = 1 /\ nextMetaId = 1
  /\ loc = [p \in Procs |-> Idle]
  /\ hb = {}
  /\ pg = NoPage
  /\ au = NoAuth

\* ChatSQLClient.CreateUser: INSERT INTO users(username, hash, salt).
\* The table has no unique index on username.
CreateUser(username) ==
  /\ nextUserId <= MaxUsers
  /\ users' = users \cup {[id |-> nextUserId, username |-> username]}
  /\ nextUserId' = nextUserId + 1
  /\ UNCHANGED << messages, metadata, nextMsgId, nextMetaId, loc, hb, pg, au >>

\* ------------------------------------------------------------ AddMessage
NeedsMetadata(t) == t \in {MESSAGE_TYPE_IMAGE_LINK, MESSAGE_TYPE_VIDEO_LINK}

\* requests that may still insert a message row, or a metadata row
PendingMsgs == {q \in Procs : loc[q].op = "AddMessage" /\ loc[q].pc \notin {"ret", "panic"}}
PendingMeta == {q \in Procs : loc[q].op = "AddMessage" /\ NeedsMetadata(loc[q].messageType)
                              /\ loc[q].pc = "add_metadata"}

Set(p, r) == loc' = [loc EXCEPT ![p] = r]

\* the function returns (id, err); its other locals are dead
Return(p, id, err) ==
  Set(p, [Clear(loc[p]) EXCEPT !.pc = "ret", !.op = loc[p].op, !.id = id, !.err = err,
                                !.metadataId = loc[p].metadataId])

\* AddMessage(senderName, recipientName, messageType, content) is called by a
\* request whose locals are l: the two getUserId calls and the switch.  The
\* users table only grows and getUserId yields the least matching id, so a name
\* once resolved resolves to the same id ever after, and the two reads are one step.
AddMessageEnter(l, senderName, recipientName, messageType, content) ==
  LET s == getUserId(senderName)
      r == getUserId(recipientName)
      c == [Clear(l) EXCEPT !.op = "AddMessage"]
      e == [c EXCEPT !.pc = "ret", !.id = -1]
      k == [c EXCEPT !.senderName = senderName, !.recipientName = recipientName,
                     !.messageType = messageType, !.content = content,
                     !.senderId = s.id, !.recipientId = r.id,
                     !.pre = {m.id : m \in messages}]
  IN IF s.err # NoErr THEN [e EXCEPT !.err = s.err]
     ELSE IF r.err # NoErr THEN [e EXCEPT !.err = r.err]
     ELSE IF messageType = MESSAGE_TYPE_PLAINTEXT THEN [k EXCEPT !.pc = "add_plaintext"]
     ELSE IF messageType \in {MESSAGE_TYPE_IMAGE_LINK, MESSAGE_TYPE_VIDEO_LINK}
       THEN [k EXCEPT !.pc = "add_metadata"]
     ELSE [e EXCEPT !.err = ErrUnknownType]

\* room for the rows the call may insert
AddMessageRoom(messageType) ==
  /\ Cardinality(messages) + Cardinality(PendingMsgs) < MaxMsgs
  /\ NeedsMetadata(messageType) =>
       Cardinality(metadata) + Cardinality(PendingMeta) < MaxMeta

\* a request calls ChatSQLClient.AddMessage
AddMessageCall(p, senderName, recipientName, messageType, content) ==
  /\ loc[p].pc = "idle"
  /\ AddMessageRoom(messageType)
  /\ Set(p, AddMessageEnter(Idle, senderName, recipientName, messageType, content))
  /\ UNCHANGED << users, messages, metadata, nextUserId, nextMsgId, nextMetaId, hb, pg, au >>

\* message_content TINYTEXT NOT NULL: the column holds 255 bytes.  A longer
\* value is cut to 255 bytes when the server's sql_mode is not strict; in
\* strict mode the INSERT fails, which is the failing branch of Exec.
TINYTEXT_BYTES == 255
Tinytext(content) ==
  IF Len(content) > TINYTEXT_BYTES THEN SubSeq(content, 1, TINYTEXT_BYTES) ELSE content

\* MessageRow with the metadata reference left out of every INSERT
MessageRow_NoReference(p, metadata_id) ==
  [id |-> nextMsgId, sender_id |-> loc[p].senderId, recipient_id |-> loc[p].recipientId,
   message_type |-> loc[p].messageType, message_content |-> Tinytext(loc[p].content),
   message_metadata_id |-> NullInt64(FALSE, 0)]

\* the row INSERT_MESSAGE_WITH_NO_METADATA / INSERT_MESSAGE stores
MessageRow(p, metadata_id) ==
  [id |-> nextMsgId, sender_id |-> loc[p].senderId, recipient_id |-> loc[p].recipientId,
   message_type |-> loc[p].messageType, message_content |-> Tinytext(loc[p].content),
   message_metadata_id |-> metadata_id]

\* ExecInsertMessage that writes the table back as it was when the call
\* began, with the new row: the rows stored in between are lost
ExecInsertMessage_WriteBack(p, metadata_id) ==
  \/ /\ messages' = {m \in messages : m.id \in loc[p].pre} \cup {MessageRow(p, metadata_id)}
     /\ nextMsgId' = nextMsgId + 1
     /\ hb' = hb \cup {<<m, nextMsgId>> : m \in loc[p].pre}
     /\ Set(p, [loc[p] EXCEPT !.pc = "ret", !.id = nextMsgId, !.err = NoErr, !.pre = {}])
  \/ /\ Return(p, -1, ErrStorage)
     /\ UNCHANGED << messages, nextMsgId, hb >>

\* ExecInsertMessage whose LastInsertId is that of the first row ever stored
ExecInsertMessage_FirstId(p, metadata_id) ==
  \/ /\ messages' = messages \cup {MessageRow(p, metadata_id)}
     /\ nextMsgId' = nextMsgId + 1
     /\ hb' = hb \cup {<<m, 1>> : m \in loc[p].pre}
     /\ Set(p, [loc[p] EXCEPT !.pc = "ret", !.id = 1, !.err = NoErr, !.pre = {}])
  \/ /\ Return(p, -1, ErrStorage)
     /\ UNCHANGED << messages, nextMsgId, hb >>

\* Exec of an INSERT into messages, and the return that follows it; after a
\* successful return the caller still holds the arguments it passed
ExecInsertMessage(p, metadata_id) ==
  \/ /\ messages' = messages \cup {MessageRow(p, metadata_id)}
     /\ nextMsgId' = nextMsgId + 1
     /\ hb' = hb \cup {<<m, nextMsgId>> : m \in loc[p].pre}
     /\ Set(p, [loc[p] EXCEPT !.pc = "ret", !.id = nextMsgId, !.err = NoErr, !.pre = {}])
  \/ /\ Return(p, -1, ErrStorage)
     /\ UNCHANGED << messages, nextMsgId, hb >>

\* case MESSAGE_TYPE_PLAINTEXT
AddMessagePlaintext(p) ==
  /\ loc[p].pc = "add_plaintext"
  /\ ExecInsertMessage(p, NullInt64(FALSE, 0))
  /\ UNCHANGED << users, metadata, nextUserId, nextMetaId, pg, au >>

\* the row INSERT_MESSAGES_IMAGE_METADATA / INSERT_MESSAGES_VIDEO_METADATA stores
MetadataRow(t) ==
  IF t = MESSAGE_TYPE_IMAGE_LINK
  THEN [id |-> nextMetaId, width |-> IMAGE_WIDTH, height |-> IMAGE_HEIGHT,
        length |-> NullInt, source |-> NullStr]
  ELSE [id |-> nextMetaId, width |-> NullInt, height |-> NullInt,
        length |-> VIDEO_LENGTH, source |-> VIDEO_SOURCE]

\* AddMessageMetadata that takes the next id without storing the row
AddMessageMetadata_NoRow(p) ==
  /\ loc[p].pc = "add_metadata"
  /\ nextMetaId' = nextMetaId + 1
  /\ Set(p, [loc[p] EXCEPT !.pc = "add_message", !.metadataId = nextMetaId])
  /\ UNCHANGED << users, messages, metadata, nextUserId, nextMsgId, hb, pg, au >>

\* case MESSAGE_TYPE_IMAGE_LINK, MESSAGE_TYPE_VIDEO_LINK: "First insert the
\* metadata."  The error of Exec is overwritten by that of res.LastInsertId();
\* when Exec fails res is nil and the call on it panics.
AddMessageMetadata(p) ==
  /\ loc[p].pc = "add_metadata"
  /\ \/ /\ metadata' = metadata \cup {MetadataRow(loc[p].messageType)}
        /\ nextMetaId' = nextMetaId + 1
        /\ Set(p, [loc[p] EXCEPT !.pc = "add_message", !.metadataId = nextMetaId])
     \/ /\ Set(p, [loc[p] EXCEPT !.pc = "panic"])
        /\ UNCHANGED << metadata, nextMetaId >>
  /\ UNCHANGED << users, messages, nextUserId, nextMsgId, hb, pg, au >>

\* "Insert the message."
AddMessageMessage(p) ==
  /\ loc[p].pc = "add_message"
  /\ ExecInsertMessage(p, NullInt64(TRUE, loc[p].metadataId))
  /\ UNCHANGED << users, metadata, nextUserId, nextMetaId, pg, au >>

\* --------------------------------------------------------- FetchMessages
RECURSIVE SortById_Desc(_)
\* SortById in descending order
SortById_Desc(S) ==
  IF S = {} THEN << >>
  ELSE LET m == CHOOSE x \in S : \A y \in S : x.id >= y.id
       IN << m >> \o SortById_Desc(S \ {m})

RECURSIVE SortById(_)
\* ORDER BY id
SortById(S) ==
  IF S = {} THEN << >>
  ELSE LET m == CHOOSE x \in S : \A y \in S : x.id <= y.id
       IN << m >> \o SortById(S \ {m})

\* SelectMessagesBetweenUsers that yields the newest row only
SelectMessagesBetweenUsers_Newest(a, b) ==
  LET S == {m \in messages : \/ (m.sender_id = a /\ m.recipient_id = b)
                             \/ (m.sender_id = b /\ m.recipient_id = a)}
  IN SortById({m \in S : \A y \in S : m.id >= y.id})

\* SelectMessagesBetweenUsers matching one direction only
SelectMessagesBetweenUsers_OneWay(a, b) ==
  SortById({m \in messages : m.sender_id = a /\ m.recipient_id = b})

\* SELECT_MESSAGES_BETWEEN_USERS with the arguments
\* (requestedSenderId, requestedRecipientId, requestedRecipientId, requestedSenderId)
\* SelectMessagesBetweenUsers as the rows of one direction followed by the
\* rows of the other, a row that is of both directions twice
SelectMessagesBetweenUsers_EachWay(a, b) ==
  SortById({m \in messages : m.sender_id = a /\ m.recipient_id = b})
    \o SortById({m \in messages : m.sender_id = b /\ m.recipient_id = a})

SelectMessagesBetweenUsers(a, b) ==
  SortById({m \in messages : \/ (m.sender_id = a /\ m.recipient_id = b)
                             \/ (m.sender_id = b /\ m.recipient_id = a)})

\* SELECT width, height FROM messages_metadata WHERE id=?  scanned into two ints
getImageMetadataFromId(id) ==
  LET rs == {r \in metadata : r.id = id}
      r  == CHOOSE x \in rs : TRUE
  IN IF rs = {} THEN [metadata |-> Nil, err |-> ErrNoRows]
     ELSE IF r.width = NullInt \/ r.height = NullInt THEN [metadata |-> Nil, err |-> ErrScan]
     ELSE [metadata |-> Ptr([Width |-> r.width, Height |-> r.height, Length |-> 0, Source |-> ""]),
           err |-> NoErr]

\* SELECT length, source FROM messages_metadata WHERE id=?  scanned into int, string
getVideoMetadataFromId(id) ==
  LET rs == {r \in metadata : r.id = id}
      r  == CHOOSE x \in rs : TRUE
  IN IF rs = {} THEN [metadata |-> Nil, err |-> ErrNoRows]
     ELSE IF r.length = NullInt \/ r.source = NullStr THEN [metadata |-> Nil, err |-> ErrScan]
     ELSE [metadata |-> Ptr([Width |-> 0, Height |-> 0, Length |-> r.length, Source |-> r.source]),
           err |-> NoErr]

Message(sender, recipient, messageType, content, md) ==
  [Sender |-> sender, Recipient |-> recipient, MessageType |-> messageType,
   Content |-> content, Metadata |-> md]

\* ScanRow with sender and recipient exchanged
ScanRow_Swapped(row) ==
  LET sender    == getUserById(row.recipient_id)
      recipient == getUserById(row.sender_id)
  IN [msg |-> Ptr(Message(sender.username, recipient.username,
                          row.message_type, row.message_content, Nil)),
      err |-> NoErr]

\* one iteration of the loop over rows: the Message appended for a row, or the error
ScanRow(row) ==
  LET sender    == getUserById(row.sender_id)
      recipient == getUserById(row.recipient_id)
      md == IF row.message_type = MESSAGE_TYPE_IMAGE_LINK
            THEN getImageMetadataFromId(row.message_metadata_id.Int64)
            ELSE getVideoMetadataFromId(row.message_metadata_id.Int64)
  IN IF sender.err # NoErr THEN [msg |-> Nil, err |-> sender.err]
     ELSE IF recipient.err # NoErr THEN [msg |-> Nil, err |-> recipient.err]
     ELSE IF row.message_metadata_id.Valid
       THEN IF row.message_type \in {MESSAGE_TYPE_IMAGE_LINK, MESSAGE_TYPE_VIDEO_LINK}
            THEN IF md.err # NoErr THEN [msg |-> Nil, err |-> md.err]
                 ELSE [msg |-> Ptr(Message(sender.username, recipient.username,
                                           row.message_type, row.message_content, md.metadata)),
                       err |-> NoErr]
            ELSE [msg |-> Nil, err |-> ErrUnknownType]
       ELSE [msg |-> Ptr(Message(sender.username, recipient.username,
                                 row.message_type, row.message_content, Nil)),
             err |-> NoErr]

\* FetchMessages returns (messages, err); rows is kept next to the result, it
\* is what the result was computed from
FetchReturned(l, rows, msgs, err) ==
  [Clear(l) EXCEPT !.pc = "ret", !.op = "FetchMessages", !.rows = rows,
                   !.msgs = msgs, !.err = err]

FetchReturn(p, rows, msgs, err) == Set(p, FetchReturned(loc[p], rows, msgs, err))

\* FetchMessages(senderName, recipientName) is called by a request whose locals
\* are l: the two getUserId calls (one step, as in AddMessageEnter)
FetchMessagesEnter(l, senderName, recipientName) ==
  LET s == getUserId(senderName)
      r == getUserId(recipientName)
  IN IF s.err # NoErr THEN FetchReturned(l, << >>, << >>, s.err)
     ELSE IF r.err # NoErr THEN FetchReturned(l, << >>, << >>, r.err)
     ELSE [Clear(l) EXCEPT !.pc = "fetch_query", !.op = "FetchMessages",
                           !.senderName = senderName, !.recipientName = recipientName,
                           !.senderId = s.id, !.recipientId = r.id]

\* a request calls ChatSQLClient.FetchMessages
FetchMessagesCall(p, senderName, recipientName) ==
  /\ loc[p].pc = "idle"
  /\ Set(p, FetchMessagesEnter(Idle, senderName, recipientName))
  /\ UNCHANGED << users, messages, metadata, nextUserId, nextMsgId, nextMetaId, hb, pg, au >>

\* FetchMessagesQuery that takes the rows it reads out of the table
FetchMessagesQuery_Consuming(p) ==
  /\ loc[p].pc = "fetch_query"
  /\ LET rows == SelectMessagesBetweenUsers(loc[p].senderId, loc[p].recipientId)
     IN /\ IF rows = << >>
           THEN FetchReturn(p, << >>, << >>, NoErr)
           ELSE Set(p, [loc[p] EXCEPT !.pc = "fetch_rows", !.rows = rows])
        /\ messages' = messages \ {rows[i] : i \in 1 .. Len(rows)}
  /\ UNCHANGED << users, metadata, nextUserId, nextMsgId, nextMetaId, hb, pg, au >>

\* rows, err := client.db.Query(SELECT_MESSAGES_BETWEEN_USERS, ...)
FetchMessagesQuery(p) ==
  /\ loc[p].pc = "fetch_query"
  /\ \/ LET rows == SelectMessagesBetweenUsers(loc[p].senderId, loc[p].recipientId)
        IN IF rows = << >>
           THEN FetchReturn(p, << >>, << >>, NoErr)
           ELSE Set(p, [loc[p] EXCEPT !.pc = "fetch_rows", !.rows = rows])
     \/ FetchReturn(p, << >>, << >>, ErrStorage)
  /\ UNCHANGED << users, messages, metadata, nextUserId, nextMsgId, nextMetaId, hb, pg, au >>

\* for rows.Next() { ... }: one iteration, and the return after the last one
FetchMessagesRow(p) ==
  /\ loc[p].pc = "fetch_rows"
  /\ LET row == loc[p].rows[Len(loc[p].msgs) + 1]
         r   == ScanRow(row)
         msgs == loc[p].msgs \o r.msg
     IN IF r.err # NoErr THEN FetchReturn(p, loc[p].rows, << >>, r.err)
        ELSE IF Len(msgs) = Len(loc[p].rows) THEN FetchReturn(p, loc[p].rows, msgs, NoErr)
        ELSE Set(p, [loc[p] EXCEPT !.msgs = msgs])
  /\ UNCHANGED << users, messages, metadata, nextUserId, nextMsgId, nextMetaId, hb, pg, au >>

RECURSIVE ScanRows(_, _)
\* the loop over rows, from the messages collected so far
ScanRows(rows, msgs) ==
  IF rows = << >> THEN [msgs |-> msgs, err |-> NoErr]
  ELSE LET r == ScanRow(Head(rows))
       IN IF r.err # NoErr THEN [msgs |-> << >>, err |-> r.err]
          ELSE ScanRows(Tail(rows), msgs \o r.msg)

\* FetchMessages(senderName, recipientName) run to its end on the tables as
\* they are, no other request in between and no storage failure
FetchMessagesNow(senderName, recipientName) ==
  LET e == FetchMessagesEnter(Idle, senderName, recipientName)
  IN IF e.pc = "ret" THEN [msgs |-> << >>, err |-> e.err]
     ELSE ScanRows(SelectMessagesBetweenUsers(e.senderId, e.recipientId), << >>)

\* ------------------------------------------------------------ pagination
StatusOK == 200
StatusBadRequest == 400
StatusInternalServerError == 500
\* messages[lo:hi] of Go: panics unless 0 <= lo <= hi <= len (cap = len here)
Slice(msgs, lo, hi) ==
  IF 0 <= lo /\ lo <= hi /\ hi <= Len(msgs)
  THEN [panic |-> FALSE, messages |-> SubSeq(msgs, lo + 1, hi)]
  ELSE [panic |-> TRUE, messages |-> << >>]

\* Paginate with the end of the page ignored: always the tail from start on
Paginate_WholeTail(msgs, messagesPerPage, pageToLoad) ==
  LET start == Mul(pageToLoad, messagesPerPage)
  IN IF Len(msgs) <= start \/ start < 0 \/ messagesPerPage <= 0
     THEN [status |-> StatusBadRequest, panic |-> FALSE, messages |-> << >>]
     ELSE LET r == Slice(msgs, start, Len(msgs))
          IN [status |-> StatusOK, panic |-> r.panic, messages |-> r.messages]

\* Paginate that refuses a start beyond the last message only
Paginate_UpToEnd(msgs, messagesPerPage, pageToLoad) ==
  LET start == Mul(pageToLoad, messagesPerPage)
      end   == Mul(Add(pageToLoad, 1), messagesPerPage)
  IN IF Len(msgs) < start \/ start < 0 \/ messagesPerPage <= 0
     THEN [status |-> StatusBadRequest, panic |-> FALSE, messages |-> << >>]
     ELSE LET r == IF Len(msgs) >= end THEN Slice(msgs, start, end)
                   ELSE Slice(msgs, start, Len(msgs))
          IN [status |-> StatusOK, panic |-> r.panic, messages |-> r.messages]

\* "Return only a subset of the messages if specified": the slice of the
\* fetched messages for (messagesPerPage, pageToLoad), the 400 of an
\* impossible page, or the panic of a slice out of range.
Paginate(msgs, messagesPerPage, pageToLoad) ==
  LET start == Mul(pageToLoad, messagesPerPage)
      end   == Mul(Add(pageToLoad, 1), messagesPerPage)
  IN IF Len(msgs) <= start \/ start < 0 \/ messagesPerPage <= 0
     THEN [status |-> StatusBadRequest, panic |-> FALSE, messages |-> << >>]
     ELSE LET r == IF Len(msgs) >= end THEN Slice(msgs, start, end)
                   ELSE Slice(msgs, start, Len(msgs))
          IN [status |-> StatusOK, panic |-> r.panic, messages |-> r.messages]

\* A conversation of n messages as FetchMessages returns it (message i has content i).
MaxTotal == 3
ContentOf == << "m1", "m2", "m3", "m4", "m5" >>
Conversation(n) == [i \in 1 .. n |->
                      Message("a", "b", MESSAGE_TYPE_PLAINTEXT, ContentOf[i], Nil)]

InitPage ==
  /\ users = {} /\ messages = {} /\ metadata = {}
  /\ nextUserId = 1 /\ nextMsgId = 1 /\ nextMetaId = 1
  /\ loc = [p \in Procs |-> Idle]
  /\ hb = {}
  /\ au = NoAuth
  /\ \/ \E n \in 0 .. MaxTotal, messagesPerPage \in GoInt, pageToLoad \in GoInt :
          pg = [NoPage EXCEPT !.state = "fetched", !.messages = Conversation(n),
                              !.usePagination = TRUE,
                              !.messagesPerPage = messagesPerPage, !.pageToLoad = pageToLoad]
     \/ \E n \in 0 .. MaxTotal :
          pg = [NoPage EXCEPT !.state = "fetched", !.messages = Conversation(n)]

\* the handler responds with the fetched messages: if usePagination { ... }
\* with the slice of them
PaginateStep ==
  /\ pg.state = "fetched"
  /\ LET r == IF pg.usePagination
              THEN Paginate(pg.messages, pg.messagesPerPage, pg.pageToLoad)
              ELSE [status |-> StatusOK, panic |-> FALSE, messages |-> pg.messages]
     IN pg' = [pg EXCEPT !.state = IF r.panic THEN "panic" ELSE "responded",
                         !.status = r.status, !.out = r.messages]
  /\ UNCHANGED << users, messages, metadata, nextUserId, nextMsgId, nextMetaId, loc, hb, au >>

NextPage == PaginateStep

SpecPage == InitPage /\ [][NextPage]_vars

\* ------------------------------------------------- GET /messages handlers
\* A query value is the decimal numeral of n, or text that is no numeral.
Num(n) == [num |-> TRUE, n |-> n]
Junk == [num |-> FALSE, n |-> 0]

\* strconv.Atoi: an error for text that is no numeral or is out of int's range
Atoi(v) == IF v.num /\ v.n \in GoInt THEN [n |-> v.n, err |-> FALSE]
           ELSE [n |-> 0, err |-> TRUE]

\* http.Error(w, text, code): the status holds unless one was written before
HttpError(w, code) ==
  [status |-> IF w.status = 0 THEN code ELSE w.status,
   body |-> Append(w.body, [error |-> TRUE, messages |-> << >>])]

\* w.WriteHeader(http.StatusOK); json.NewEncoder(w).Encode(messages)
WriteMessages(w, msgs) ==
  [status |-> IF w.status = 0 THEN StatusOK ELSE w.status,
   body |-> Append(w.body, [error |-> FALSE, messages |-> msgs])]

\* _, have := params[key]
Have(values) == Len(values) > 0

\* the check of messagesPerPage and pageToLoad "either both have 1 value or
\* both have 0 values"
BadPageParams(q) ==
  \/ Have(q.messagesPerPage) /\ ~Have(q.pageToLoad)
  \/ Have(q.pageToLoad) /\ ~Have(q.messagesPerPage)
  \/ Len(q.messagesPerPage) > 1
  \/ Len(q.pageToLoad) > 1

\* ChatServer.parseFetchMessages: (senderName, recipientName, usePagination,
\* messagesPerPage, pageToLoad, err)
parseFetchMessages(q) ==
  LET bad == [senderName |-> "", recipientName |-> "", usePagination |-> FALSE,
              messagesPerPage |-> -1, pageToLoad |-> -1, err |-> TRUE]
  IN IF Len(q.sender) # 1 \/ Len(q.recipient) # 1 THEN bad
     ELSE IF BadPageParams(q) THEN bad
     ELSE IF Have(q.messagesPerPage)
       THEN IF Atoi(q.messagesPerPage[1]).err THEN bad
            ELSE IF Atoi(q.pageToLoad[1]).err THEN bad
            ELSE [senderName |-> q.sender[1], recipientName |-> q.recipient[1],
                  usePagination |-> TRUE, messagesPerPage |-> Atoi(q.messagesPerPage[1]).n,
                  pageToLoad |-> Atoi(q.pageToLoad[1]).n, err |-> FALSE]
       ELSE [senderName |-> q.sender[1], recipientName |-> q.recipient[1],
             usePagination |-> FALSE, messagesPerPage |-> -1, pageToLoad |-> -1, err |-> FALSE]

\* the locals of a handler after parsing
Parsed(h, q, pr, w) ==
  [Idle EXCEPT !.h = h, !.q = q, !.usePagination = pr.usePagination,
               !.messagesPerPage = pr.messagesPerPage, !.pageToLoad = pr.pageToLoad, !.w = w]

Responded(l, w) == [Clear(l) EXCEPT !.pc = "responded", !.op = l.op, !.rows = l.rows,
                                    !.msgs = l.msgs, !.err = l.err, !.w = w]

\* ChatServer.fetchMessages of messages.go, up to its call of FetchMessages: a
\* request that does not parse is answered 400 and the handler returns.  The
\* FetchMessages(fetchMessagesParams) it calls is not among the sources; the
\* request goes on as in the revision before (fetchMessages_r5).
fetchMessages(p, q) ==
  /\ loc[p].pc = "idle"
  /\ LET pr == parseFetchMessages(q)
     IN IF pr.err
        THEN Set(p, Responded(Parsed("main", q, pr, NoResponse),
                              HttpError(NoResponse, StatusBadRequest)))
        ELSE Set(p, FetchMessagesEnter(Parsed("main", q, pr, NoResponse),
                                       pr.senderName, pr.recipientName))
  /\ UNCHANGED << users, messages, metadata, nextUserId, nextMsgId, nextMetaId, hb, pg, au >>

\* ChatServer.fetchMessages, the revision that introduced parseFetchMessages:
\* after http.Error for a request that does not parse there is no return, and
\* FetchMessages is called with the empty names parseFetchMessages returned.
fetchMessages_r5(p, q) ==
  /\ loc[p].pc = "idle"
  /\ LET pr == parseFetchMessages(q)
         w  == IF pr.err THEN HttpError(NoResponse, StatusBadRequest) ELSE NoResponse
     IN Set(p, FetchMessagesEnter(Parsed("r5", q, pr, w), pr.senderName, pr.recipientName))
  /\ UNCHANGED << users, messages, metadata, nextUserId, nextMsgId, nextMetaId, hb, pg, au >>

\* ChatServer.fetchMessages, the revision that parses in the handler: the
\* presence checks come before FetchMessages, strconv.Atoi after it.
fetchMessages_r4(p, q) ==
  /\ loc[p].pc = "idle"
  /\ LET l == [Idle EXCEPT !.h = "r4", !.q = q]
     IN IF Len(q.sender) # 1 \/ Len(q.recipient) # 1 \/ BadPageParams(q)
        THEN Set(p, Responded(l, HttpError(NoResponse, StatusBadRequest)))
        ELSE Set(p, FetchMessagesEnter(l, q.sender[1], q.recipient[1]))
  /\ UNCHANGED << users, messages, metadata, nextUserId, nextMsgId, nextMetaId, hb, pg, au >>

\* the handler after FetchMessages has returned, with the page arguments it has
AfterFetch(p, usePagination, messagesPerPage, pageToLoad) ==
  LET l == loc[p]
      r == Paginate(l.msgs, messagesPerPage, pageToLoad)
  IN IF l.err # NoErr THEN Set(p, Responded(l, HttpError(l.w, StatusInternalServerError)))
     ELSE IF ~usePagination THEN Set(p, Responded(l, WriteMessages(l.w, l.msgs)))
     ELSE IF r.panic THEN Set(p, [Clear(l) EXCEPT !.pc = "panic", !.op = l.op])
     ELSE IF r.status = StatusBadRequest
       THEN Set(p, Responded(l, HttpError(l.w, StatusBadRequest)))
     ELSE Set(p, Responded(l, WriteMessages(l.w, r.messages)))

\* fetchMessages (messages.go, and the revision before) from the return of
\* FetchMessages on
fetchMessagesRespond(p) ==
  /\ loc[p].pc = "ret" /\ loc[p].h \in {"main", "r5"}
  /\ AfterFetch(p, loc[p].usePagination, loc[p].messagesPerPage, loc[p].pageToLoad)
  /\ UNCHANGED << users, messages, metadata, nextUserId, nextMsgId, nextMetaId, hb, pg, au >>

\* fetchMessages (the revision that parses in the handler) from the return of
\* FetchMessages on
fetchMessagesRespond_r4(p) ==
  /\ loc[p].pc = "ret" /\ loc[p].h = "r4"
  /\ LET l == loc[p]
         have == Have(l.q.messagesPerPage)
         mpp == IF have THEN Atoi(l.q.messagesPerPage[1]) ELSE [n |-> 0, err |-> FALSE]
         ptl == IF have THEN Atoi(l.q.pageToLoad[1]) ELSE [n |-> 0, err |-> FALSE]
     IN IF l.err = NoErr /\ have /\ (mpp.err \/ ptl.err)
        THEN Set(p, Responded(l, HttpError(l.w, StatusBadRequest)))
        ELSE AfterFetch(p, have, mpp.n, ptl.n)
  /\ UNCHANGED << users, messages, metadata, nextUserId, nextMsgId, nextMetaId, hb, pg, au >>

\* the caller has the result (or net/http has recovered the panic)
Done(p) ==
  /\ \/ loc[p].pc \in {"panic", "responded"}
     \/ loc[p].pc = "ret" /\ loc[p].h = ""
  /\ Set(p, Idle)
  /\ UNCHANGED << users, messages, metadata, nextUserId, nextMsgId, nextMetaId, hb, pg, au >>

Next ==
  \/ \E n \in CreateNames : CreateUser(n)
  \/ \E p \in Procs, s \in LookupNames, r \in LookupNames, t \in MessageTypes, c \in Contents :
       AddMessageCall(p, s, r, t, c)
  \/ \E p \in Procs : AddMessagePlaintext(p)
  \/ \E p \in Procs : AddMessageMetadata(p)
  \/ \E p \in Procs : AddMessageMessage(p)
  \/ \E p \in Procs, s \in LookupNames, r \in LookupNames : FetchMessagesCall(p, s, r)
  \/ \E p \in Procs : FetchMessagesQuery(p)
  \/ \E p \in Procs : FetchMessagesRow(p)
  \/ \E p \in Procs : Done(p)

Spec == Init /\ [][Next]_vars

\* ------------------------------------------- one request after the other
\* The /messages handlers on a store filled by one request at a time.
HttpProc == CHOOSE p \in Procs : \A q \in Procs : p <= q
FetchCreateNames == {"", "a", "b"}
FetchSendPairs == {<< "A", "b" >>, << "b", "A" >>, << "", "" >>}
FetchSendTypes == {MESSAGE_TYPE_PLAINTEXT, MESSAGE_TYPE_IMAGE_LINK}
SenderValues == {<< >>, << "A" >>, << "" >>}
RecipientValues == {<< "b" >>, << "" >>}
PageValues == {<< >>, << Junk >>, << Num(1) >>, << Num(2) >>, << Num(1), Num(1) >>}
Queries == [sender : SenderValues, recipient : RecipientValues,
            messagesPerPage : PageValues, pageToLoad : PageValues]

NextFetch ==
  \/ \E n \in FetchCreateNames : CreateUser(n)
  \/ \E sr \in FetchSendPairs, t \in FetchSendTypes, c \in Contents :
       AddMessageCall(HttpProc, sr[1], sr[2], t, c)
  \/ AddMessagePlaintext(HttpProc)
  \/ AddMessageMetadata(HttpProc)
  \/ AddMessageMessage(HttpProc)
  \/ \E q \in Queries : fetchMessages(HttpProc, q)
  \/ \E q \in Queries : fetchMessages_r5(HttpProc, q)
  \/ \E q \in Queries : fetchMessages_r4(HttpProc, q)
  \/ FetchMessagesQuery(HttpProc)
  \/ FetchMessagesRow(HttpProc)
  \/ fetchMessagesRespond(HttpProc)
  \/ fetchMessagesRespond_r4(HttpProc)
  \/ Done(HttpProc)

SpecFetch == Init /\ [][NextFetch]_vars

\* ------------------------------------------------ POST /messages handlers
\* The JSON body of a request, decoded into sendMessageStruct (ok), or a body
\* that does not decode.
Body(sender, recipient, messageType, content) ==
  [ok |-> TRUE, sender |-> sender, recipient |-> recipient,
   messageType |-> messageType, content |-> content]
BadBody == [NoBody EXCEPT !.content = "{"]

\* w.WriteHeader(http.StatusOK); Encode of sender, recipient, message_id
WriteSent(w, senderName, recipientName, id) ==
  [status |-> IF w.status = 0 THEN StatusOK ELSE w.status,
   body |-> Append(w.body, [error |-> FALSE, messages |-> << >>, message_id |-> id])]

\* ChatServer.parseSendMessage: the error of a body that does not decode, of
\* empty content and of a type that is none of the three
parseSendMessage(b) ==
  \/ ~b.ok
  \/ b.content = ""
  \/ b.messageType \notin {MESSAGE_TYPE_PLAINTEXT, MESSAGE_TYPE_IMAGE_LINK,
                            MESSAGE_TYPE_VIDEO_LINK}

\* ChatServer.sendMessage of messages.go, up to its call of AddMessage
sendMessage(p, b) ==
  /\ loc[p].pc = "idle"
  /\ LET l == [Idle EXCEPT !.h = "send", !.b = b]
     IN IF parseSendMessage(b)
        THEN Set(p, Responded(l, HttpError(NoResponse, StatusBadRequest)))
        ELSE /\ AddMessageRoom(b.messageType)
             /\ Set(p, AddMessageEnter(l, b.sender, b.recipient, b.messageType, b.content))
  /\ UNCHANGED << users, messages, metadata, nextUserId, nextMsgId, nextMetaId, hb, pg, au >>

\* ChatServer.sendMessage, the revision before parseSendMessage: only a body
\* that does not decode is answered 400; every other one is given to AddMessage.
sendMessage_r5(p, b) ==
  /\ loc[p].pc = "idle"
  /\ LET l == [Idle EXCEPT !.h = "send_r5", !.b = b]
     IN IF ~b.ok
        THEN Set(p, Responded(l, HttpError(NoResponse, StatusBadRequest)))
        ELSE /\ AddMessageRoom(b.messageType)
             /\ Set(p, AddMessageEnter(l, b.sender, b.recipient, b.messageType, b.content))
  /\ UNCHANGED << users, messages, metadata, nextUserId, nextMsgId, nextMetaId, hb, pg, au >>

\* sendMessage from the return of AddMessage on
sendMessageRespond(p) ==
  /\ loc[p].pc = "ret" /\ loc[p].h \in {"send", "send_r5"}
  /\ LET l == loc[p]
     IN Set(p, [Responded(l, IF l.err # NoErr
                             THEN HttpError(l.w, StatusInternalServerError)
                             ELSE WriteSent(l.w, l.b.sender, l.b.recipient, l.id))
                  EXCEPT !.id = l.id])
  /\ UNCHANGED << users, messages, metadata, nextUserId, nextMsgId, nextMetaId, hb, pg, au >>

\* The POST /messages handlers of the two revisions, one request at a time.
SendNames == {"A", "b", "c"}
SendTypes == {MESSAGE_TYPE_PLAINTEXT, MESSAGE_TYPE_IMAGE_LINK, "sticker", ""}
X16 == "xxxxxxxxxxxxxxxx"
X64 == X16 \o X16 \o X16 \o X16
LongContent == X64 \o X64 \o X64 \o X64      \* 256 bytes
SendContents == {"", "hi", LongContent}
Bodies == {BadBody} \cup {Body(s, r, t, c) : s \in SendNames, r \in SendNames,
                                             t \in SendTypes, c \in SendContents}

NextSend ==
  \/ \E n \in CreateNames : CreateUser(n)
  \/ \E b \in Bodies : sendMessage(HttpProc, b)
  \/ \E b \in Bodies : sendMessage_r5(HttpProc, b)
  \/ AddMessagePlaintext(HttpProc)
  \/ AddMessageMetadata(HttpProc)
  \/ AddMessageMessage(HttpProc)
  \/ sendMessageRespond(HttpProc)
  \/ Done(HttpProc)

SpecSend == Init /\ [][NextSend]_vars

\* --------------------------------------------------------------- chatauth
\* Passwords, salts and bcrypt keys are sequences of bytes.
MAX_PASSWORD_BYTES == 72     \* len(password) > 72 of parseCreateUser
SALT_BYTES == 16             \* auth.GenerateSalt(16)
BCRYPT_MAX_INPUT == 72       \* the longest input bcrypt operates on
Bytes(n, x) == [i \in 1 .. n |-> x]
Take(s, n) == IF Len(s) <= n THEN s ELSE SubSeq(s, 1, n)

\* the length check of parseCreateUser on the password
PasswordAccepted(password) ==
  ~ (Len(password) < 1 \/ Len(password) > MAX_PASSWORD_BYTES)

\* bcrypt.GenerateFromPassword(input, HASH_COST), the outcomes a build can
\* have: the hash is a function of the first 72 bytes of its input (a hash is
\* written as the key it stands for); golang.org/x/crypto hashes a longer input
\* cut to 72 bytes in its older versions and returns ErrPasswordTooLong for it
\* in its newer ones, and the repository pins no version.
GenerateFromPassword(input) ==
  {[hash |-> [key |-> Take(input, BCRYPT_MAX_INPUT)], err |-> FALSE]}
    \cup (IF Len(input) > BCRYPT_MAX_INPUT
          THEN {[hash |-> Nil, err |-> TRUE]} ELSE {})

\* bcrypt.CompareHashAndPassword(hash, input): nil (TRUE) for the key of the hash
CompareHashAndPassword(hash, input) ==
  hash # Nil /\ hash.key = Take(input, BCRYPT_MAX_INPUT)

\* chatauth.HashPasswordWithSalt(password, salt): its outcomes (hash, err)
HashPasswordWithSalt(password, salt) == GenerateFromPassword(password \o salt)

\* Authenticate that compares the password alone, the salt left out
Authenticate_NoSalt(password, salt, hash) == CompareHashAndPassword(hash, password)

\* chatauth.Authenticate(password, salt, hash): TRUE for a token and a nil error
Authenticate(password, salt, hash) == CompareHashAndPassword(hash, password \o salt)

\* A password and a salt are hashed, and a password is checked against the result.
AuthLengths == {0, 1, 2, 56, 57, 72, 73}
AuthPasswords == {Bytes(n, x) : n \in AuthLengths, x \in {1, 2}}
AuthSalts == {Bytes(SALT_BYTES, x) : x \in {2, 3}}

InitAuth ==
  /\ users = {} /\ messages = {} /\ metadata = {}
  /\ nextUserId = 1 /\ nextMsgId = 1 /\ nextMetaId = 1
  /\ loc = [p \in Procs |-> Idle]
  /\ hb = {}
  /\ pg = NoPage
  /\ \E password \in AuthPasswords, salt \in AuthSalts :
       au = [NoAuth EXCEPT !.state = "given", !.password = password, !.salt = salt]

\* hash, err := auth.HashPasswordWithSalt(password, salt)
HashStep ==
  /\ au.state = "given"
  /\ \E r \in HashPasswordWithSalt(au.password, au.salt) :
       au' = [au EXCEPT !.state = IF r.err THEN "hash_failed" ELSE "hashed",
                        !.hash = r.hash, !.err = r.err]
  /\ UNCHANGED << users, messages, metadata, nextUserId, nextMsgId, nextMetaId, loc, hb, pg >>

\* Authenticate(password, salt, hash) for a password tried against the stored pair
AuthenticateStep ==
  /\ au.state = "hashed"
  /\ \E password \in AuthPasswords :
       au' = [au EXCEPT !.state = "checked", !.tried = password,
                        !.ok = Authenticate(password, au.salt, au.hash)]
  /\ UNCHANGED << users, messages, metadata, nextUserId, nextMsgId, nextMetaId, loc, hb, pg >>

NextAuth == HashStep \/ AuthenticateStep

SpecAuth == InitAuth /\ [][NextAuth]_vars

\* --------------------------------------------------- POST /users handlers
StatusConflict == 409
StatusUnprocessableEntity == 422
MAX_USERNAME_CHARS == 10

\* ChatSQLClient.CheckUserExists
CheckUserExists(username) == getUserId(username).err = NoErr

\* a body that decodes, and one that does not
UserBody(username, password) == [ok |-> TRUE, username |-> username, password |-> password]
BadUserBody == [NoUserBody EXCEPT !.username = "{"]

\* ChatServer.parseCreateUser: (username, password, err)
parseCreateUser(b) ==
  IF ~b.ok THEN [username |-> "", password |-> << >>, err |-> TRUE]
  ELSE IF Len(b.username) < 1 \/ Len(b.password) < 1
          \/ Len(b.username) > MAX_USERNAME_CHARS \/ Len(b.password) > MAX_PASSWORD_BYTES
    THEN [username |-> "", password |-> << >>, err |-> TRUE]
  ELSE [username |-> b.username, password |-> b.password, err |-> FALSE]

\* requests that may yet insert a row into users
PendingUsers ==
  {p \in Procs : loc[p].pc \in {"check_exists", "hash", "hash_r1", "create_user"}}

\* an account of this username, in any letter case, is stored
Taken(username) == \E v \in users : Lower(v.username) = Lower(username)
UsersRoom == nextUserId + Cardinality(PendingUsers) <= MaxUsers

\* ChatServer.createUser, up to CheckUserExists: a request that does not parse
\* is answered 400, and with no return after it the handler goes on with the
\* empty username and password parseCreateUser returned.
createUser(p, b) ==
  /\ loc[p].pc = "idle"
  /\ UsersRoom
  /\ LET pr == parseCreateUser(b)
         w  == IF pr.err THEN HttpError(NoResponse, StatusBadRequest) ELSE NoResponse
     IN Set(p, [Idle EXCEPT !.pc = "check_exists", !.h = "users", !.w = w,
                            !.u = [body |-> b, username |-> pr.username,
                                   password |-> pr.password,
                                   existed |-> b.ok /\ Taken(b.username)]])
  /\ UNCHANGED << users, messages, metadata, nextUserId, nextMsgId, nextMetaId, hb, pg, au >>

\* ChatServer.createUser, the revision before CheckUserExists: a request that
\* does not parse is answered 400 and ends; one that parses goes on to the
\* hash and the insert.
createUser_r1(p, b) ==
  /\ loc[p].pc = "idle"
  /\ UsersRoom
  /\ LET pr == parseCreateUser(b)
         l  == [Idle EXCEPT !.h = "users_r1",
                            !.u = [body |-> b, username |-> pr.username,
                                   password |-> pr.password,
                                   existed |-> b.ok /\ Taken(b.username)]]
     IN IF pr.err
        THEN Set(p, Responded(l, HttpError(NoResponse, StatusBadRequest)))
        ELSE Set(p, [l EXCEPT !.pc = "hash_r1"])
  /\ UNCHANGED << users, messages, metadata, nextUserId, nextMsgId, nextMetaId, hb, pg, au >>

\* ChatServer.handleUsers, the revision that parses in the handler: it checks
\* the two maximum lengths only.
createUser_r6(p, b) ==
  /\ loc[p].pc = "idle"
  /\ UsersRoom
  /\ LET l == [Idle EXCEPT !.h = "users_r6",
                           !.u = [body |-> b, username |-> b.username,
                                  password |-> b.password,
                                  existed |-> b.ok /\ Taken(b.username)]]
     IN IF ~b.ok
        THEN Set(p, Responded([l EXCEPT !.u = [NoUser EXCEPT !.body = b]],
                              HttpError(NoResponse, StatusBadRequest)))
        ELSE IF Len(b.username) > MAX_USERNAME_CHARS \/ Len(b.password) > MAX_PASSWORD_BYTES
          THEN Set(p, Responded(l, HttpError(NoResponse, StatusUnprocessableEntity)))
        ELSE Set(p, [l EXCEPT !.pc = "check_exists"])
  /\ UNCHANGED << users, messages, metadata, nextUserId, nextMsgId, nextMetaId, hb, pg, au >>

\* if server.db.CheckUserExists(username) { ... StatusConflict; return }
createUserCheck(p) ==
  /\ loc[p].pc = "check_exists"
  /\ IF CheckUserExists(loc[p].u.username)
     THEN Set(p, Responded(loc[p], HttpError(loc[p].w, StatusConflict)))
     ELSE Set(p, [loc[p] EXCEPT !.pc = "hash"])
  /\ UNCHANGED << users, messages, metadata, nextUserId, nextMsgId, nextMetaId, hb, pg, au >>

\* salt := auth.GenerateSalt(16); hash, err := auth.HashPasswordWithSalt(password, salt)
createUserHash(p) ==
  /\ loc[p].pc = "hash"
  /\ \E r \in HashPasswordWithSalt(loc[p].u.password, Bytes(SALT_BYTES, 2)) :
       IF r.err
       THEN Set(p, Responded(loc[p], HttpError(loc[p].w, StatusInternalServerError)))
       ELSE Set(p, [loc[p] EXCEPT !.pc = "create_user"])
  /\ UNCHANGED << users, messages, metadata, nextUserId, nextMsgId, nextMetaId, hb, pg, au >>

\* hash, err := auth.HashPasswordWithSalt(password) of the earlier revision:
\* the handler takes either outcome of the call.
createUserHash_r1(p) ==
  /\ loc[p].pc = "hash_r1"
  /\ \E err \in BOOLEAN :
       IF err
       THEN Set(p, Responded(loc[p], HttpError(loc[p].w, StatusInternalServerError)))
       ELSE Set(p, [loc[p] EXCEPT !.pc = "create_user"])
  /\ UNCHANGED << users, messages, metadata, nextUserId, nextMsgId, nextMetaId, hb, pg, au >>

\* w.WriteHeader(http.StatusOK); Encode of username and id
WriteCreated(w, username, id) ==
  [status |-> IF w.status = 0 THEN StatusOK ELSE w.status,
   body |-> Append(w.body, [error |-> FALSE, messages |-> << >>, id |-> id])]

\* id, err := server.db.CreateUser(username, hash, salt), and the response
createUserInsert(p) ==
  /\ loc[p].pc = "create_user"
  /\ \/ /\ users' = users \cup {[id |-> nextUserId, username |-> loc[p].u.username]}
        /\ nextUserId' = nextUserId + 1
        /\ Set(p, [Responded(loc[p], WriteCreated(loc[p].w, loc[p].u.username, nextUserId))
                     EXCEPT !.id = nextUserId])
     \/ /\ Set(p, Responded(loc[p], HttpError(loc[p].w, StatusInternalServerError)))
        /\ UNCHANGED << users, nextUserId >>
  /\ UNCHANGED << messages, metadata, nextMsgId, nextMetaId, hb, pg, au >>

\* The POST /users handlers of the three revisions, requests side by side.
UserNames == {"", "a", "A", "abcdefghijk"}
UserPasswords == {Bytes(n, 1) : n \in {0, 1, 57, 73}}
UserBodies == {BadUserBody} \cup {UserBody(n, pw) : n \in UserNames, pw \in UserPasswords}

NextUsers ==
  \/ \E p \in Procs, b \in UserBodies : createUser(p, b)
  \/ \E p \in Procs, b \in UserBodies : createUser_r1(p, b)
  \/ \E p \in Procs, b \in UserBodies : createUser_r6(p, b)
  \/ \E p \in Procs : createUserCheck(p)
  \/ \E p \in Procs : createUserHash(p)
  \/ \E p \in Procs : createUserHash_r1(p)
  \/ \E p \in Procs : createUserInsert(p)
  \/ \E p \in Procs : Done(p)

SpecUsers == Init /\ [][NextUsers]_vars

\* --------------------------------------------------- the reads of the store
\* SELECT hash, salt FROM users WHERE username=?  scanned by QueryRow: the row
\* whose hash and salt are returned, or the error of Scan
GetUserCredentials(username) ==
  LET g == getUserId(username)
  IN IF g.err # NoErr THEN [row |-> Nil, err |-> g.err]
     ELSE [row |-> Ptr(CHOOSE u \in users : u.id = g.id), err |-> NoErr]

\* a request calls getUserId, and has its result
getUserIdCall(p, username) ==
  /\ loc[p].pc = "idle"
  /\ Set(p, [Idle EXCEPT !.pc = "ret", !.op = "getUserId", !.senderName = username,
                         !.id = getUserId(username).id, !.err = getUserId(username).err])
  /\ UNCHANGED << users, messages, metadata, nextUserId, nextMsgId, nextMetaId, hb, pg, au >>

\* a request calls getUserById, and has its result
getUserByIdCall(p, id) ==
  /\ loc[p].pc = "idle"
  /\ Set(p, [Idle EXCEPT !.pc = "ret", !.op = "getUserById", !.id = id,
                         !.senderName = getUserById(id).username,
                         !.err = getUserById(id).err])
  /\ UNCHANGED << users, messages, metadata, nextUserId, nextMsgId, nextMetaId, hb, pg, au >>

\* a request calls CheckUserExists, and has its result
CheckUserExistsCall(p, username) ==
  /\ loc[p].pc = "idle"
  /\ Set(p, [Idle EXCEPT !.pc = "ret", !.op = "CheckUserExists", !.senderName = username,
                         !.id = IF CheckUserExists(username) THEN 1 ELSE 0])
  /\ UNCHANGED << users, messages, metadata, nextUserId, nextMsgId, nextMetaId, hb, pg, au >>

\* a request calls GetUserCredentials, and has its result
GetUserCredentialsCall(p, username) ==
  /\ loc[p].pc = "idle"
  /\ LET r == GetUserCredentials(username)
     IN Set(p, [Idle EXCEPT !.pc = "ret", !.op = "GetUserCredentials",
                            !.senderName = username,
                            !.id = IF r.err = NoErr THEN r.row[1].id ELSE 0,
                            !.err = r.err])
  /\ UNCHANGED << users, messages, metadata, nextUserId, nextMsgId, nextMetaId, hb, pg, au >>

\* The operations of the store and the GET /messages handler, one call at a time.
ReadNames == {"A", "b", "c"}
ReadIds == 0 .. MaxUsers
ReadPageValues == {<< >>, << Num(0) >>, << Num(1) >>}
ReadQueries == [sender : {<< "A" >>}, recipient : {<< "b" >>, << "c" >>},
                messagesPerPage : ReadPageValues, pageToLoad : ReadPageValues]

NextReads ==
  \/ \E n \in CreateNames : CreateUser(n)
  \/ \E s \in LookupNames, r \in LookupNames, t \in MessageTypes, c \in Contents :
       AddMessageCall(HttpProc, s, r, t, c)
  \/ AddMessagePlaintext(HttpProc)
  \/ AddMessageMetadata(HttpProc)
  \/ AddMessageMessage(HttpProc)
  \/ \E s \in ReadNames, r \in ReadNames : FetchMessagesCall(HttpProc, s, r)
  \/ \E q \in ReadQueries : fetchMessages(HttpProc, q)
  \/ FetchMessagesQuery(HttpProc)
  \/ FetchMessagesRow(HttpProc)
  \/ fetchMessagesRespond(HttpProc)
  \/ \E n \in ReadNames : getUserIdCall(HttpProc, n)
  \/ \E i \in ReadIds : getUserByIdCall(HttpProc, i)
  \/ \E n \in ReadNames : CheckUserExistsCall(HttpProc, n)
  \/ \E n \in ReadNames : GetUserCredentialsCall(HttpProc, n)
  \/ Done(HttpProc)

SpecReads == Init /\ [][NextReads]_vars

\* ================================================================ claims
AddReturned(p) == loc[p].op = "AddMessage" /\ loc[p].pc = "ret"
FetchReturnedOk(p) == loc[p].op = "FetchMessages" /\ loc[p].pc = "ret" /\ loc[p].err = NoErr

\* C1: an AddMessage that has returned an error, or was aborted, has left no
\* metadata row of its own behind (and no message row: it stores none).
C1_FailureAtomicity ==
  \A p \in Procs :
    (loc[p].op = "AddMessage"
       /\ (loc[p].pc = "panic" \/ (loc[p].pc = "ret" /\ loc[p].err # NoErr)))
    => ~ \E r \in metadata : r.id = loc[p].metadataId

\* C2: whenever no AddMessage is between its two inserts, every metadata row is
\* referenced by exactly one message row, and every metadata reference of a
\* message row is to a stored metadata row.
C2_Ownership ==
  (\A p \in Procs : loc[p].pc # "add_message") =>
  /\ \A r \in metadata :
       Cardinality({m \in messages : m.message_metadata_id.Valid
                                     /\ m.message_metadata_id.Int64 = r.id}) = 1
  /\ \A m \in messages :
       m.message_metadata_id.Valid =>
         \E r \in metadata : r.id = m.message_metadata_id.Int64

\* C3: a FetchMessages that got rows from its query fails on none of them, and
\* every image_link or video_link message it returns carries its metadata.
C3_NoPartialMessage ==
  \A p \in Procs :
    (loc[p].op = "FetchMessages" /\ loc[p].pc = "ret") =>
      /\ loc[p].rows # << >> => loc[p].err = NoErr
      /\ \A i \in 1 .. Len(loc[p].msgs) :
           NeedsMetadata(loc[p].msgs[i].MessageType) => loc[p].msgs[i].Metadata # Nil

\* a fetch has returned a message with metadata while another request is
\* between its metadata insert and its message insert
C3_Witness ==
  \E p \in Procs, q \in Procs :
    /\ FetchReturnedOk(p)
    /\ \E i \in 1 .. Len(loc[p].msgs) : loc[p].msgs[i].Metadata # Nil
    /\ loc[q].pc = "add_message"

\* C4: a stored message has a metadata reference exactly if its type is not plaintext.
C4_MetadataIffNotPlaintext ==
  \A m \in messages :
    m.message_metadata_id.Valid <=> m.message_type # MESSAGE_TYPE_PLAINTEXT

C4_Witness ==
  /\ \E m \in messages : m.message_type = MESSAGE_TYPE_PLAINTEXT
  /\ \E m \in messages : m.message_type = MESSAGE_TYPE_VIDEO_LINK

Range(f) == {f[i] : i \in DOMAIN f}
SamePair(m1, m2) == {m1.sender_id, m1.recipient_id} = {m2.sender_id, m2.recipient_id}

\* C5: a fetch returns its messages in the order they were sent: when m1 was
\* stored before the AddMessage of m2 began, a fetch that returns m2 returns m1
\* too (if it is of the same pair) and before m2; and a fetch of (A, B) and one
\* of (B, A) on the same tables return the same sequence.
C5_SendOrder ==
  /\ \A p \in Procs :
       FetchReturnedOk(p) =>
         LET rows == loc[p].rows
             msgs == loc[p].msgs
         IN /\ Len(msgs) = Len(rows)
            /\ \A i \in 1 .. Len(rows) : msgs[i].Content = rows[i].message_content
            /\ \A i \in 1 .. Len(rows), j \in 1 .. Len(rows) :
                 << rows[i].id, rows[j].id >> \in hb => i < j
            /\ \A m1 \in messages, j \in 1 .. Len(rows) :
                 (<< m1.id, rows[j].id >> \in hb /\ SamePair(m1, rows[j]))
                   => m1 \in Range(rows)
  /\ \A A \in LookupNames, B \in LookupNames :
       A # B => FetchMessagesNow(A, B) = FetchMessagesNow(B, A)

\* a fetch has returned two messages sent one after the other in opposite directions
C5_Witness ==
  \E p \in Procs :
    /\ FetchReturnedOk(p)
    /\ Len(loc[p].rows) = 2
    /\ << loc[p].rows[1].id, loc[p].rows[2].id >> \in hb
    /\ loc[p].rows[1].sender_id # loc[p].rows[2].sender_id

\* AddMessage of request p has returned the id of its stored message, and no
\* message was stored after it
Stored(p) ==
  AddReturned(p) /\ loc[p].err = NoErr /\ loc[p].id = nextMsgId - 1

MetadataOk(t, md) ==
  IF t = MESSAGE_TYPE_IMAGE_LINK
  THEN md # Nil /\ md[1].Width = IMAGE_WIDTH /\ md[1].Height = IMAGE_HEIGHT
  ELSE IF t = MESSAGE_TYPE_VIDEO_LINK
  THEN md # Nil /\ md[1].Length = VIDEO_LENGTH /\ md[1].Source = VIDEO_SOURCE
  ELSE md = Nil

OfPair(m, A, B) ==
  LET s == getUserById(m.sender_id).username
      r == getUserById(m.recipient_id).username
  IN \/ Lower(s) = Lower(A) /\ Lower(r) = Lower(B)
     \/ Lower(s) = Lower(B) /\ Lower(r) = Lower(A)

\* C7: the query of FetchMessages(A, B) yields exactly the stored messages
\* between A and B, each once, and the fetch returns one message for each of them.
C7_ConversationIsolation ==
  [][\A p \in Procs :
       /\ (loc[p].pc = "fetch_query" /\ loc'[p].pc \in {"fetch_rows", "ret"}
             /\ loc'[p].err = NoErr) =>
            LET rows == loc'[p].rows
                conv == {m \in messages : OfPair(m, loc[p].senderName, loc[p].recipientName)}
            IN Range(rows) = conv /\ Len(rows) = Cardinality(conv)
       /\ (loc[p].op = "FetchMessages" /\ loc'[p].pc = "ret" /\ loc'[p].err = NoErr) =>
            /\ Len(loc'[p].msgs) = Len(loc'[p].rows)
            /\ \A i \in 1 .. Len(loc'[p].rows) :
                 /\ loc'[p].msgs[i].Content = loc'[p].rows[i].message_content
                 /\ loc'[p].msgs[i].Sender = getUserById(loc'[p].rows[i].sender_id).username
                 /\ loc'[p].msgs[i].Recipient = getUserById(loc'[p].rows[i].recipient_id).username]_vars

\* a fetch has returned a conversation while a message of another one is stored
C7_Witness ==
  \E p \in Procs :
    /\ FetchReturnedOk(p)
    /\ Len(loc[p].rows) > 0
    /\ \E m \in messages : ~SamePair(m, loc[p].rows[1])

Min(a, b) == IF a <= b THEN a ELSE b

\* start = pageIndex * pageSize, as a number
PageStart == pg.pageToLoad * pg.messagesPerPage

\* C8: a paginated fetch with pageSize > 0 and 0 <= start < total responds with
\* exactly the messages of the conversation at positions
\* [start, min(start + pageSize, total)), in their order.
C8_PaginationWindow ==
  (pg.state # "fetched" /\ pg.usePagination /\ pg.messagesPerPage > 0
     /\ 0 <= PageStart /\ PageStart < Len(pg.messages))
  => /\ pg.state = "responded"
     /\ pg.status = StatusOK
     /\ pg.out = SubSeq(pg.messages, PageStart + 1,
                        Min(PageStart + pg.messagesPerPage, Len(pg.messages)))

\* the last page, begun after the first and cut short by the end of the conversation
C8_Witness ==
  /\ pg.state = "responded" /\ pg.status = StatusOK
  /\ PageStart > 0
  /\ PageStart + pg.messagesPerPage > Len(pg.messages)
  /\ Len(pg.out) = 1

\* C9: a paginated fetch with pageSize <= 0, or with start = pageIndex *
\* pageSize negative or not below the number of messages, is answered with a
\* validation error and no messages.
C9_PaginationRejection ==
  (pg.state # "fetched" /\ pg.usePagination
     /\ (pg.messagesPerPage <= 0 \/ PageStart < 0 \/ PageStart >= Len(pg.messages)))
  => /\ pg.state = "responded"
     /\ pg.status = StatusBadRequest
     /\ pg.out = << >>

\* both page parameters of query q are there once, as numerals of an int
BothPageParams(q) ==
  /\ Len(q.messagesPerPage) = 1 /\ ~Atoi(q.messagesPerPage[1]).err
  /\ Len(q.pageToLoad) = 1 /\ ~Atoi(q.pageToLoad[1]).err

\* the request with locals l named one sender and one recipient, and its
\* FetchMessages has returned their messages
Fetched(l) ==
  /\ Len(l.q.sender) = 1 /\ Len(l.q.recipient) = 1
  /\ l.op = "FetchMessages" /\ l.err = NoErr

\* C10: a GET /messages that has exactly one of messagesPerPage and pageToLoad,
\* or more than one value of either, is answered 400 with the error alone and
\* FetchMessages is not called for it; one with neither is answered with all
\* the messages fetched, and one with both with the page of them.
C10_PageParamsTogether ==
  \A p \in Procs :
    (loc[p].pc = "responded" /\ loc[p].h # "") =>
      LET l == loc[p]
          q == l.q
      IN /\ BadPageParams(q) =>
              /\ l.op = ""
              /\ l.w = HttpError(NoResponse, StatusBadRequest)
         /\ (Fetched(l) /\ ~Have(q.messagesPerPage) /\ ~Have(q.pageToLoad)) =>
              l.w = WriteMessages(NoResponse, l.msgs)
         /\ (Fetched(l) /\ BothPageParams(q)) =>
              LET r == Paginate(l.msgs, Atoi(q.messagesPerPage[1]).n,
                                Atoi(q.pageToLoad[1]).n)
              IN l.w = IF r.status = StatusBadRequest
                       THEN HttpError(NoResponse, StatusBadRequest)
                       ELSE WriteMessages(NoResponse, r.messages)

\* The values an error of the store is formatted with: sql.ErrNoRows, the
\* driver's Scan and Exec errors are fixed texts, and the error of an unknown
\* message type carries the type.
ErrorArgs(err) ==
  IF err = ErrUnknownType
  THEN MessageTypes \ {MESSAGE_TYPE_PLAINTEXT, MESSAGE_TYPE_IMAGE_LINK, MESSAGE_TYPE_VIDEO_LINK}
  ELSE {}

\* the first of the two names that has no account, in a set; empty if both have one
FirstMissing(senderName, recipientName) ==
  IF getUserId(senderName).err # NoErr THEN {senderName}
  ELSE IF getUserId(recipientName).err # NoErr THEN {recipientName}
  ELSE {}

\* C11, without the error's text: an AddMessage whose sender or recipient has
\* no account returns (-1, error) at once and leaves both tables as they are.
C11_NoRowsForMissingUser ==
  [][\A p \in Procs, s \in LookupNames, r \in LookupNames, t \in MessageTypes, c \in Contents :
       (AddMessageCall(p, s, r, t, c) /\ FirstMissing(s, r) # {}) =>
         /\ loc'[p].pc = "ret" /\ loc'[p].id = -1 /\ loc'[p].err # NoErr
         /\ messages' = messages /\ metadata' = metadata]_vars

\* C11: an AddMessage whose sender or recipient has no account returns
\* (-1, error) with an error that names the missing username, and leaves the
\* messages and messages_metadata tables as they are, whatever the type.
C11_MissingUserNamed ==
  [][\A p \in Procs, s \in LookupNames, r \in LookupNames, t \in MessageTypes, c \in Contents :
       (AddMessageCall(p, s, r, t, c) /\ FirstMissing(s, r) # {}) =>
         /\ loc'[p].pc = "ret" /\ loc'[p].id = -1 /\ loc'[p].err # NoErr
         /\ FirstMissing(s, r) \subseteq ErrorArgs(loc'[p].err)
         /\ messages' = messages /\ metadata' = metadata]_vars

\* C12, without the error's text: a FetchMessages with a name that has no
\* account returns an empty sequence and an error.
C12_EmptyForMissingUser ==
  [][\A p \in Procs, s \in LookupNames, r \in LookupNames :
       (FetchMessagesCall(p, s, r) /\ FirstMissing(s, r) # {}) =>
         /\ loc'[p].pc = "ret" /\ loc'[p].err # NoErr
         /\ loc'[p].msgs = << >>]_vars

\* C12: a FetchMessages with a name that has no account returns an empty
\* sequence and an error that names the missing username, the first of the two
\* when both are missing.
C12_MissingUserNamed ==
  [][\A p \in Procs, s \in LookupNames, r \in LookupNames :
       (FetchMessagesCall(p, s, r) /\ FirstMissing(s, r) # {}) =>
         /\ loc'[p].pc = "ret" /\ loc'[p].err # NoErr
         /\ FirstMissing(s, r) \subseteq ErrorArgs(loc'[p].err)
         /\ loc'[p].msgs = << >>]_vars

\* the body b of a send request has empty content or a type that is none of the three
BadSend(b) ==
  /\ b.ok
  /\ \/ b.content = ""
     \/ b.messageType \notin {MESSAGE_TYPE_PLAINTEXT, MESSAGE_TYPE_IMAGE_LINK,
                              MESSAGE_TYPE_VIDEO_LINK}

\* C13: a POST /messages with empty content or with a type other than
\* plaintext, image_link, video_link is answered 400 without AddMessage being
\* called for it, so that it writes no row, whether or not its users exist.
C13_SendValidated ==
  \A p \in Procs :
    (loc[p].h \in {"send", "send_r5"} /\ BadSend(loc[p].b)) =>
      /\ loc[p].pc = "responded"
      /\ loc[p].op = ""
      /\ loc[p].w = HttpError(NoResponse, StatusBadRequest)

\* C14: AddMessage has no error for a sender that is also the recipient (its
\* errors are those of a missing account, an unknown type and the storage), and
\* a FetchMessages(A, A) returns every stored message of A to itself exactly once.
C14_SelfMessages ==
  /\ \A p \in Procs :
       (AddReturned(p) /\ loc[p].err # NoErr) =>
         loc[p].err \in {ErrNoRows, ErrUnknownType, ErrStorage}
  /\ \A A \in LookupNames :
       getUserId(A).err = NoErr =>
         LET id   == getUserId(A).id
             rows == SortById({m \in messages : m.sender_id = id /\ m.recipient_id = id})
             f    == FetchMessagesNow(A, A)
         IN /\ f.err = NoErr
            /\ Len(f.msgs) = Len(rows)
            /\ \A i \in 1 .. Len(f.msgs) :
                 /\ f.msgs[i].Sender = f.msgs[i].Recipient
                 /\ f.msgs[i].Content = rows[i].message_content
                 /\ f.msgs[i].MessageType = rows[i].message_type

\* an AddMessage from an account to itself has returned the id of its stored
\* message, and a fetch of that account with itself has returned one message
C14_Witness ==
  \E p \in Procs, q \in Procs :
    /\ Stored(p) /\ loc[p].senderId = loc[p].recipientId
    /\ FetchReturnedOk(q) /\ Len(loc[q].msgs) = 1
    /\ loc[q].rows[1].sender_id = loc[p].senderId
    /\ loc[q].rows[1].recipient_id = loc[p].senderId

\* C19: a password that signup accepts (1 to 72 bytes), checked against the
\* hash derived from it and the salt generated for it, is found correct.
C19_CredentialRoundTrip ==
  (au.state = "checked" /\ PasswordAccepted(au.password) /\ au.tried = au.password)
    => au.ok

\* a password of 72 bytes has been hashed with its salt and found correct
C19_Witness ==
  /\ au.state = "checked" /\ au.tried = au.password /\ au.ok
  /\ Len(au.password) = MAX_PASSWORD_BYTES

\* C20: for a password that signup accepts (1 to 72 bytes) the input of the
\* hash is at most the 72 bytes bcrypt operates on: hashing does not fail, and
\* the hash stands for the whole of the password and its salt.
C20_PasswordBoundSufficient ==
  (au.state # "given" /\ PasswordAccepted(au.password)) =>
    /\ Len(au.password \o au.salt) <= BCRYPT_MAX_INPUT
    /\ ~au.err
    /\ au.hash # Nil /\ au.hash.key = au.password \o au.salt

\* a request to the users endpoint whose body decodes and passes the checks
\* of parseCreateUser
WellFormed(l) ==
  l.h \in {"users", "users_r1", "users_r6"} /\ ~parseCreateUser(l.u.body).err

\* the request has written its account row
Created(l) == l.pc = "responded" /\ l.w.status = StatusOK /\ l.id # 0

UserConflict(l) ==
  /\ l.pc \in {"check_exists", "hash", "responded"}
  /\ l.pc = "responded" => (l.w.status = StatusConflict /\ l.id = 0)

\* C15 for the revisions that call CheckUserExists: a well-formed request
\* whose username was stored when it arrived is answered 409 and inserts no row.
C15_ConflictWithCheck ==
  \A p \in Procs :
    (WellFormed(loc[p]) /\ loc[p].u.existed /\ loc[p].h \in {"users", "users_r6"}) =>
      UserConflict(loc[p])

\* C15: creating an account with a username that already exists fails with a
\* conflict error and leaves the accounts unchanged; of two creations with the
\* same username, one after the other, the second does not succeed.
C15_ConflictOnExisting ==
  \A p \in Procs :
    (WellFormed(loc[p]) /\ loc[p].u.existed) =>
      /\ ~Created(loc[p])
      /\ loc[p].pc = "responded" => loc[p].w.status = StatusConflict

\* C16: no two account rows have the same username, compared without regard
\* to letter case, in any interleaving of account creations.
C16_UsernameUnique ==
  \A u1 \in users, u2 \in users :
    Lower(u1.username) = Lower(u2.username) => u1 = u2

\* C18: every account row has a username of 1 to 10 characters.
C18_UsernameLength ==
  \A u \in users : Len(u.username) >= 1 /\ Len(u.username) <= MAX_USERNAME_CHARS

\* the usernames accountExists is asked about
ProbeNames == UserNames \cup {"b"}

AddOk(p) == AddReturned(p) /\ loc[p].err = NoErr

\* C21: message ids grow in send order: when AddMessage X had stored its
\* message before AddMessage Y began, the id returned for Y is greater than
\* that of X; no two successful AddMessage calls return the same id, and the
\* id returned is that of the row stored.
C21_IdsIncreasing ==
  /\ \A pair \in hb : pair[1] < pair[2]
  /\ \A p \in Procs, q \in Procs :
       (p # q /\ AddOk(p) /\ AddOk(q)) => loc[p].id # loc[q].id
  /\ \A p \in Procs :
       AddOk(p) =>
         /\ loc[p].id >= 1
         /\ Cardinality({m \in messages : m.id = loc[p].id}) = 1
  /\ \A m1 \in messages, m2 \in messages : m1.id = m2.id => m1 = m2

\* two calls, the second begun after the first had stored its message, have
\* both returned
C21_Witness ==
  \E p \in Procs, q \in Procs :
    /\ p # q /\ AddOk(p) /\ AddOk(q)
    /\ << loc[p].id, loc[q].id >> \in hb


Prefix(s, t) == Len(s) <= Len(t) /\ \A i \in 1 .. Len(s) : s[i] = t[i]

\* the rows a fetch of the pair of this row would be given now, and the
\* messages it would return
RowsNow(row) == SelectMessagesBetweenUsers(row.sender_id, row.recipient_id)
FetchNow(row) == ScanRows(RowsNow(row), << >>)

\* C22: messages are append-only and immutable: the result of a fetch is a
\* prefix of the result of every later fetch of the same pair; no row of
\* messages or messages_metadata is ever removed or changed.
C22_AppendOnly ==
  /\ [](/\ \A p \in Procs :
            (FetchReturnedOk(p) /\ loc[p].rows # << >>) =>
              /\ Prefix(loc[p].rows, RowsNow(loc[p].rows[1]))
              /\ FetchNow(loc[p].rows[1]).err = NoErr
              /\ Prefix(loc[p].msgs, FetchNow(loc[p].rows[1]).msgs)
        /\ \A p \in Procs, q \in Procs :
            (/\ FetchReturnedOk(p) /\ loc[p].rows # << >>
             /\ FetchReturnedOk(q) /\ loc[q].rows # << >>
             /\ SamePair(loc[p].rows[1], loc[q].rows[1])) =>
              Prefix(loc[p].msgs, loc[q].msgs) \/ Prefix(loc[q].msgs, loc[p].msgs))
  /\ [][messages \subseteq messages' /\ metadata \subseteq metadata']_vars

\* a fetch has returned one message of a pair that has two by now, and a
\* later fetch of the pair has returned both
C22_Witness ==
  \E p \in Procs, q \in Procs :
    /\ FetchReturnedOk(p) /\ Len(loc[p].msgs) = 1
    /\ Len(RowsNow(loc[p].rows[1])) = 2
    /\ FetchReturnedOk(q) /\ Len(loc[q].msgs) = 2
    /\ SamePair(loc[p].rows[1], loc[q].rows[1])


\* C23: every stored message has content of 1 to 255 bytes, and a send whose
\* content is empty or longer than 255 bytes stores no message row.
C23_ContentBounds ==
  /\ \A m \in messages :
       Len(m.message_content) >= 1 /\ Len(m.message_content) <= TINYTEXT_BYTES
  /\ \A p \in Procs :
       (/\ loc[p].h \in {"send", "send_r5"} /\ loc[p].b.ok
        /\ (Len(loc[p].b.content) < 1 \/ Len(loc[p].b.content) > TINYTEXT_BYTES))
         => ~(loc[p].pc \in {"ret", "responded"} /\ loc[p].id >= 1)

\* C23, the part on empty content, for the handler with parseSendMessage
C23_ValidatedSend ==
  \A p \in Procs :
    (loc[p].h = "send" /\ loc[p].b.ok /\ Len(loc[p].b.content) < 1)
      => ~(loc[p].pc \in {"ret", "responded"} /\ loc[p].id >= 1)


\* C24: every operation of the store ends by returning a value or an error:
\* no AddMessage ends in a panic; one whose metadata insert failed returns
\* (-1, error), and stores no message row.
C24_ReturnsOnFailure ==
  \A p \in Procs :
    /\ loc[p].pc # "panic"
    /\ (AddReturned(p) /\ loc[p].err # NoErr) => loc[p].id = -1


\* a request to the users endpoint whose body does not decode, or whose
\* username or password is empty or too long
Invalid(l) ==
  l.h \in {"users", "users_r1", "users_r6"} /\ parseCreateUser(l.u.body).err

\* C25: a users request that fails parsing or validation is answered with an
\* error at once: it never gets to CheckUserExists, to the hash or to the
\* insert, and stores no account row.
C25_InvalidHasNoEffect ==
  \A p \in Procs :
    Invalid(loc[p]) =>
      /\ loc[p].pc = "responded"
      /\ loc[p].w.status \in {StatusBadRequest, StatusUnprocessableEntity}
      /\ loc[p].id = 0

\* C25 for the revision whose handler returns on the error of parseCreateUser
C25_InvalidHasNoEffect_r1 ==
  \A p \in Procs :
    (Invalid(loc[p]) /\ loc[p].h = "users_r1") =>
      /\ loc[p].pc = "responded"
      /\ loc[p].w.status = StatusBadRequest
      /\ loc[p].id = 0


\* C26: for every pair (messagesPerPage, pageToLoad) of machine integers the
\* handler either rejects the request or slices within range, from the start
\* that is the product as a number: it never panics on the slice and never
\* answers with another page than the one asked for.
C26_BoundsInRange ==
  (pg.state # "fetched" /\ pg.usePagination) =>
    /\ pg.state # "panic"
    /\ pg.status = StatusOK =>
         /\ pg.messagesPerPage > 0
         /\ 0 <= PageStart /\ PageStart < Len(pg.messages)
         /\ pg.out = SubSeq(pg.messages, PageStart + 1,
                            Min(PageStart + pg.messagesPerPage, Len(pg.messages)))
    /\ pg.status # StatusOK => (pg.status = StatusBadRequest /\ pg.out = << >>)

\* C26 for the pairs whose products pageToLoad * messagesPerPage and
\* (pageToLoad + 1) * messagesPerPage are machine integers
C26_BoundsInRange_NoWrap ==
  (/\ PageStart \in GoInt
   /\ (pg.pageToLoad + 1) \in GoInt
   /\ (pg.pageToLoad + 1) * pg.messagesPerPage \in GoInt) => C26_BoundsInRange


\* the number of pages of total messages, pageSize a page: ceil(total / pageSize)
PageCount(total, pageSize) == (total + pageSize - 1) \div pageSize

RECURSIVE Pages(_, _, _, _)
\* the pages from .. to of the conversation, one after the other
Pages(msgs, pageSize, from, to) ==
  IF from > to THEN << >>
  ELSE Paginate(msgs, pageSize, from).messages \o Pages(msgs, pageSize, from + 1, to)

\* the pages 0 .. ceil(total / pageSize) - 1 succeed, are pairwise disjoint
\* and make up the conversation
PagesCover(msgs, pageSize) ==
  LET n == PageCount(Len(msgs), pageSize)
  IN /\ \A i \in 0 .. n - 1 :
          LET r == Paginate(msgs, pageSize, i)
          IN r.status = StatusOK /\ ~r.panic /\ r.messages # << >>
     /\ \A i \in 0 .. n - 1, j \in 0 .. n - 1 :
          i < j => Range(Paginate(msgs, pageSize, i).messages)
                     \cap Range(Paginate(msgs, pageSize, j).messages) = {}
     /\ Pages(msgs, pageSize, 0, n - 1) = msgs

\* C27: the pages of a conversation of total >= 1 messages partition it, for
\* any pageSize >= 1: the pages 0 .. ceil(total / pageSize) - 1 succeed, are
\* disjoint and concatenated are the conversation; every later page is refused.
C27_PagesPartition ==
  (pg.state # "fetched" /\ pg.usePagination /\ Len(pg.messages) >= 1
     /\ pg.messagesPerPage >= 1) =>
    /\ PagesCover(pg.messages, pg.messagesPerPage)
    /\ \A i \in PageCount(Len(pg.messages), pg.messagesPerPage) .. MaxInt :
         LET r == Paginate(pg.messages, pg.messagesPerPage, i)
         IN r.status = StatusBadRequest /\ ~r.panic /\ r.messages = << >>

\* C27 with the later pages whose start pageIndex * pageSize is a machine integer
C27_PagesPartition_NoWrap ==
  (pg.state # "fetched" /\ pg.usePagination /\ Len(pg.messages) >= 1
     /\ pg.messagesPerPage >= 1) =>
    /\ PagesCover(pg.messages, pg.messagesPerPage)
    /\ \A i \in PageCount(Len(pg.messages), pg.messagesPerPage) .. MaxInt :
         i * pg.messagesPerPage \in GoInt =>
           LET r == Paginate(pg.messages, pg.messagesPerPage, i)
           IN r.status = StatusBadRequest /\ ~r.panic /\ r.messages = << >>


\* C28: a paginated fetch that succeeds returns between 1 and pageSize
\* messages; a paginated request on a conversation of no messages, or with
\* start equal to the number of messages, is refused; the unpaginated fetch
\* succeeds with all the messages, with none for a conversation of none.
C28_PageNeverEmpty ==
  pg.state # "fetched" =>
    /\ (pg.usePagination /\ pg.state = "responded" /\ pg.status = StatusOK) =>
         Len(pg.out) >= 1 /\ Len(pg.out) <= pg.messagesPerPage
    /\ (pg.usePagination /\ Len(pg.messages) = 0) =>
         (pg.state = "responded" /\ pg.status = StatusBadRequest /\ pg.out = << >>)
    /\ (pg.usePagination /\ PageStart = Len(pg.messages)) =>
         (pg.state = "responded" /\ pg.status = StatusBadRequest /\ pg.out = << >>)
    /\ ~pg.usePagination =>
         (pg.state = "responded" /\ pg.status = StatusOK /\ pg.out = pg.messages)

\* page 0 of a conversation of no messages has been refused
C28_Witness ==
  /\ pg.state = "responded" /\ pg.usePagination
  /\ Len(pg.messages) = 0 /\ pg.pageToLoad = 0 /\ pg.messagesPerPage = 1
  /\ pg.status = StatusBadRequest


\* the positions of the message with this id in a sequence of rows
PositionsOf(rows, id) == {i \in 1 .. Len(rows) : rows[i].id = id}

\* C29: concurrent sends lose and duplicate nothing: the AddMessage calls that
\* have returned successfully, however they were interleaved, have returned
\* distinct ids, and a fetch of their pair begun now yields the message of
\* each of them exactly once, as it was given, in ascending order of id, and
\* nothing but the stored messages of the pair.
C29_ConcurrentSends ==
  /\ \A p \in Procs, q \in Procs :
       (p # q /\ AddOk(p) /\ AddOk(q)) => loc[p].id # loc[q].id
  /\ \A p \in Procs :
       AddOk(p) =>
         LET rows == SelectMessagesBetweenUsers(loc[p].senderId, loc[p].recipientId)
             f    == ScanRows(rows, << >>)
         IN /\ Cardinality(PositionsOf(rows, loc[p].id)) = 1
            /\ \A i \in PositionsOf(rows, loc[p].id) :
                 /\ rows[i].sender_id = loc[p].senderId
                 /\ rows[i].recipient_id = loc[p].recipientId
                 /\ rows[i].message_content = loc[p].content
                 /\ rows[i].message_type = loc[p].messageType
            /\ \A i \in 1 .. Len(rows), j \in 1 .. Len(rows) :
                 i < j => rows[i].id < rows[j].id
            /\ {rows[i].id : i \in 1 .. Len(rows)}
                 = {m.id : m \in {x \in messages : SamePair(x, rows[1])}}
            /\ f.err = NoErr /\ Len(f.msgs) = Len(rows)
            /\ \A i \in 1 .. Len(rows) : f.msgs[i].Content = rows[i].message_content

\* two calls of one pair that ran side by side, neither having stored its
\* message before the other began, have both returned
C29_Witness ==
  \E p \in Procs, q \in Procs :
    /\ p # q /\ AddOk(p) /\ AddOk(q)
    /\ {loc[p].senderId, loc[p].recipientId} = {loc[q].senderId, loc[q].recipientId}
    /\ << loc[p].id, loc[q].id >> \notin hb
    /\ << loc[q].id, loc[p].id >> \notin hb
    /\ Len(SelectMessagesBetweenUsers(loc[p].senderId, loc[p].recipientId)) = 2


\* the operation request p is in, or has just ended
OpOf(p) ==
  IF loc'[p].op # "" THEN loc'[p].op
  ELSE IF loc[p].op # "" THEN loc[p].op
  ELSE IF loc[p].h \in {"main", "r4", "r5"} \/ loc'[p].h \in {"main", "r4", "r5"}
    THEN "FetchMessages"
  ELSE ""

ReadOps == {"FetchMessages", "CheckUserExists", "GetUserCredentials", "getUserId",
            "getUserById"}

\* C30: reads change nothing: a step of FetchMessages (of the handler with or
\* without pagination, successful or failing), CheckUserExists,
\* GetUserCredentials, getUserId or getUserById leaves the three tables as
\* they are; a step of AddMessage leaves users as it is, and the step of
\* CreateUser leaves messages and messages_metadata as they are.
C30_ReadsChangeNothing ==
  [][/\ \A p \in Procs :
          (loc'[p] # loc[p] /\ OpOf(p) \in ReadOps) =>
            (users' = users /\ messages' = messages /\ metadata' = metadata)
     /\ \A p \in Procs :
          (loc'[p] # loc[p] /\ OpOf(p) = "AddMessage") => users' = users
     /\ users' # users => (messages' = messages /\ metadata' = metadata)]_vars

\* a paginated fetch has answered with a message, and the tables hold rows
C30_Witness ==
  \E p \in Procs :
    /\ loc[p].pc = "responded" /\ loc[p].h = "main" /\ loc[p].usePagination
    /\ loc[p].w.status = StatusOK /\ Len(loc[p].msgs) >= 1
    /\ messages # {} /\ users # {}

====
